---- MODULE Spec2Model ----
(***************************************************************************)
(* Model of system/crypto/secp256r1/utils.go: the ECDSA signature codec,   *)
(* the low-S normaliser and the public/private key codecs.                 *)
(*                                                                         *)
(* The curve is scaled down so that the arithmetic can be enumerated: a    *)
(* short-Weierstrass curve y^2 = x^3 - 3x + B over a prime field with the  *)
(* shape of P-256 (a = -3, P = 3 mod 4, prime group order N < P, hence no  *)
(* point with y = 0).  The field needs 9 bits, so a coordinate takes 2     *)
(* bytes where P-256 takes 32; the literals 32, 33 and 65 of the source    *)
(* scale to 2, 3 and 5.  Bytes keep their width (0..255).                  *)
(***************************************************************************)
EXTENDS Integers, Sequences, FiniteSets, TLC

VARIABLES op, key, buf, res, cell, thr

vars == <<op, key, buf, res, cell, thr>>

(***************************************************************************)
(* Curve parameters: elliptic.P256().Params(), scaled.                     *)
(***************************************************************************)
P == 263
N == 257
B == 1
BitSize == 9
\* the order of the curve of a key that is not on P-256 (k.Params().N)
NOther == 8191

(***************************************************************************)
(* Bounds of the enumeration.                                              *)
(***************************************************************************)
\* bytes inserted into / appended to a key encoding
MaxExtra == 1
\* bytes cut from the end of an encoding
MaxCut == 5
\* highest index at which one byte of a signature encoding is replaced
MaxPos == 9

(***************************************************************************)
(* math/big: Bytes, SetBytes, Bit, Sign, Cmp.                              *)
(***************************************************************************)
ByteBase == 2 ^ 8

RECURSIVE Bytes(_)
\* big.Int.Bytes of a non-negative value: minimal big-endian, empty for 0
Bytes(n) == IF n = 0 THEN <<>> ELSE Append(Bytes(n \div ByteBase), n % ByteBase)

RECURSIVE SetBytes(_)
\* big.Int.SetBytes: the big-endian unsigned value of a byte slice
SetBytes(b) ==
    IF Len(b) = 0 THEN 0
    ELSE SetBytes(SubSeq(b, 1, Len(b) - 1)) * ByteBase + b[Len(b)]

Sign(n) == IF n > 0 THEN 1 ELSE IF n = 0 THEN 0 ELSE -1

Cmp(a, b) == IF a < b THEN -1 ELSE IF a = b THEN 0 ELSE 1

Bit0(n) == n % 2

Zeros(n) == [i \in 1..n |-> 0]

\* a nil *big.Int, and a pointer to a value
NilInt == [nil |-> TRUE, v |-> 0]
BigInt(v) == [nil |-> FALSE, v |-> v]

(***************************************************************************)
(* encoding/asn1, as used on signatureECDSA{R, S *big.Int}: DER of a       *)
(* SEQUENCE of two INTEGERs.  Every encoding handled here is shorter than  *)
(* 128 bytes, so a length always takes the short form.                     *)
(***************************************************************************)
TagInteger == 2
TagSequenceByte == 48
LongFormBit == 128

\* asn1.marshalBigInt: minimal two's complement contents
MarshalBigInt(n) ==
    IF n < 0
    THEN LET m == Bytes((-n) - 1)
             inv == [i \in 1..Len(m) |-> (ByteBase - 1) - m[i]]
         IN IF Len(inv) = 0 \/ inv[1] < LongFormBit
            THEN <<ByteBase - 1>> \o inv ELSE inv
    ELSE IF n = 0 THEN <<0>>
    ELSE LET m == Bytes(n)
         IN IF m[1] >= LongFormBit THEN <<0>> \o m ELSE m

MarshalTLV(tag, contents) == <<tag, Len(contents)>> \o contents

\* the struct type signatureECDSA{R, S *big.Int} handed to asn1.Marshal
signatureECDSA(r, s) ==
    MarshalTLV(TagSequenceByte,
               MarshalTLV(TagInteger, MarshalBigInt(r))
               \o MarshalTLV(TagInteger, MarshalBigInt(s)))

\* MarshalECDSASignature
MarshalECDSASignature(r, s) == signatureECDSA(r, s)

\* asn1.checkInteger
CheckInteger(b) ==
    /\ Len(b) > 0
    /\ (Len(b) > 1 =>
          /\ ~(b[1] = 0 /\ b[2] < LongFormBit)
          /\ ~(b[1] = ByteBase - 1 /\ b[2] >= LongFormBit))

\* asn1.parseBigInt on checked contents
ParseBigInt(b) ==
    IF b[1] >= LongFormBit
    THEN -(SetBytes([i \in 1..Len(b) |-> (ByteBase - 1) - b[i]]) + 1)
    ELSE SetBytes(b)

\* asn1.parseField for one element with the expected identifier octet:
\* [ok, contents, next] where next is the offset after the element
ParseElement(bytes, offset, tag) ==
    LET fail == [ok |-> FALSE, contents |-> <<>>, next |-> offset] IN
    IF offset + 2 > Len(bytes) THEN fail
    ELSE LET t == bytes[offset + 1]
             l == bytes[offset + 2]
         IN IF t # tag \/ l >= LongFormBit \/ offset + 2 + l > Len(bytes)
            THEN fail
            ELSE [ok |-> TRUE,
                  contents |-> SubSeq(bytes, offset + 3, offset + 2 + l),
                  next |-> offset + 2 + l]

\* asn1.Unmarshal(raw, sig) for sig *signatureECDSA: the fields left in sig
\* and whether an error was returned; bytes after the two INTEGERs, inside
\* or after the SEQUENCE, are accepted
Asn1Unmarshal(raw) ==
    LET fail == [err |-> TRUE, R |-> NilInt, S |-> NilInt]
        seq == ParseElement(raw, 0, TagSequenceByte)
    IN IF ~seq.ok THEN fail
       ELSE LET r == ParseElement(seq.contents, 0, TagInteger) IN
            IF ~r.ok \/ ~CheckInteger(r.contents) THEN fail
            ELSE LET s == ParseElement(seq.contents, r.next, TagInteger) IN
                 IF ~s.ok \/ ~CheckInteger(s.contents)
                 THEN [err |-> TRUE, R |-> BigInt(ParseBigInt(r.contents)),
                       S |-> NilInt]
                 ELSE [err |-> FALSE,
                       R |-> BigInt(ParseBigInt(r.contents)),
                       S |-> BigInt(ParseBigInt(s.contents))]

SigErr(msg) == [R |-> NilInt, S |-> NilInt, err |-> msg]

\* UnmarshalECDSASignature rejecting only negative components (Sign() == -1)
UnmarshalECDSASignatureNonNeg(raw) ==
    LET sig == Asn1Unmarshal(raw) IN
    IF sig.err THEN SigErr("failed unmashalling signature")
    ELSE IF sig.R.nil THEN SigErr("invalid signature, R must be different from nil")
    ELSE IF sig.S.nil THEN SigErr("invalid signature, S must be different from nil")
    ELSE IF Sign(sig.R.v) = -1 THEN SigErr("invalid signature, R must be larger than zero")
    ELSE IF Sign(sig.S.v) = -1 THEN SigErr("invalid signature, S must be larger than zero")
    ELSE [R |-> sig.R, S |-> sig.S, err |-> ""]

\* UnmarshalECDSASignature
UnmarshalECDSASignature(raw) ==
    LET sig == Asn1Unmarshal(raw) IN
    IF sig.err THEN SigErr("failed unmashalling signature")
    ELSE IF sig.R.nil THEN SigErr("invalid signature, R must be different from nil")
    ELSE IF sig.S.nil THEN SigErr("invalid signature, S must be different from nil")
    ELSE IF Sign(sig.R.v) # 1 THEN SigErr("invalid signature, R must be larger than zero")
    ELSE IF Sign(sig.S.v) # 1 THEN SigErr("invalid signature, S must be larger than zero")
    ELSE [R |-> sig.R, S |-> sig.S, err |-> ""]

(***************************************************************************)
(* Low-S normaliser.                                                       *)
(***************************************************************************)
\* IsLowS with a strict comparison: s.Cmp(N >> 1) == -1
IsLowSStrict(s) == Cmp(s, N \div 2) = -1

\* IsLowS: s.Cmp(N >> 1) != 1, N the order of P-256 whatever the key
IsLowS(s) == Cmp(s, N \div 2) # 1

\* ToLowS(k, s) run alone: kN is k.Params().N, s the value held by the
\* scalar object passed in.  cell is the value that object holds on return,
\* ret the value of the returned pointer, which is that same object.
ToLowS(kN, s) ==
    LET lowS == IsLowS(s) IN
    IF ~lowS THEN [cell |-> kN - s, ret |-> kN - s]
    ELSE [cell |-> s, ret |-> s]

(***************************************************************************)
(* Curve arithmetic.                                                       *)
(***************************************************************************)
\* polynomial: y^2 = x^3 - 3x + b
polynomial(b, p, x) ==
    LET x3 == (x * x) * x
        threeX == (x * 2) + x
    IN ((x3 - threeX) + b) % p

RECURSIVE ModExp(_, _, _)
ModExp(b, e, m) ==
    IF e = 0 THEN 1 % m
    ELSE LET h == ModExp(b, e \div 2, m)
             sq == (h * h) % m
         IN IF e % 2 = 1 THEN (sq * (b % m)) % m ELSE sq

\* big.Jacobi(x, p) for an odd prime p (Euler's criterion)
Jacobi(x, p) ==
    LET e == ModExp(x, (p - 1) \div 2, p) IN
    IF x % p = 0 THEN 0 ELSE IF e = 1 THEN 1 ELSE -1

\* big.Int.ModSqrt(x, p) for a prime p = 3 mod 4: nil for a non-residue,
\* 0 for 0, else x^((p+1)/4) mod p
ModSqrt(x, p) ==
    LET j == Jacobi(x, p) IN
    IF j = -1 THEN NilInt
    ELSE IF j = 0 THEN BigInt(0)
    ELSE BigInt(ModExp(x % p, (p + 1) \div 4, p))

\* elliptic.P256().IsOnCurve
IsOnCurve(x, y) ==
    /\ x >= 0 /\ x < P
    /\ y >= 0 /\ y < P
    /\ (y * y) % P = polynomial(B, P, x)

(***************************************************************************)
(* Public and private key codecs.                                          *)
(***************************************************************************)
pubkeyUncompressed == 4

\* (elliptic.P256().Params().BitSize + 7) >> 3
byteLen == (BitSize + 7) \div 8

\* the literal 32 of SerializePublicKey and parsePubKey: the width of one
\* coordinate (33 is 1 + CoordLen, 65 is 1 + 2 * CoordLen)
CoordLen == byteLen

\* privateKeyECDSALength, declared beside utils.go: the width of a scalar
privateKeyECDSALength == byteLen

\* the built-in copy(dst, src): min(len(dst), len(src)) bytes, from the left
Copy(dst, src) ==
    [i \in 1..Len(dst) |-> IF i <= Len(src) THEN src[i] ELSE dst[i]]

\* paddedAppend without its padding loop
paddedAppendNoPad(size, dst, src) == dst \o src

\* paddedAppend
paddedAppend(size, dst, src) ==
    LET pad == IF size - Len(src) > 0 THEN size - Len(src) ELSE 0
    IN (dst \o Zeros(pad)) \o src

\* SerializePublicKeyCompressed
SerializePublicKeyCompressed(p) ==
    LET compressed == Zeros(1 + byteLen)
        tag == IF Bit0(p.Y) = 1 THEN 3 ELSE 2
        xBytes == Bytes(p.X)
    IN <<tag>> \o Copy(SubSeq(compressed, 2, 1 + byteLen), xBytes)

\* SerializePublicKey
SerializePublicKey(p) ==
    paddedAppend(CoordLen,
                 paddedAppend(CoordLen, <<pubkeyUncompressed>>, Bytes(p.X)),
                 Bytes(p.Y))

\* SerializePrivateKey
SerializePrivateKey(d) == paddedAppend(privateKeyECDSALength, <<>>, Bytes(d))

KeyOk(x, y) == [status |-> "ok", err |-> "", X |-> x, Y |-> y]
KeyErr(msg) == [status |-> "error", err |-> msg, X |-> 0, Y |-> 0]
\* a run-time panic (slice bounds out of range) unwinding out of the call
KeyPanic == [status |-> "panic", err |-> "slice bounds out of range", X |-> 0, Y |-> 0]

\* parsePubKey
parsePubKey(pubKeyStr) ==
    IF Len(pubKeyStr) = 0 THEN KeyErr("pubkey string is empty")
    ELSE IF Len(pubKeyStr) < 1 + CoordLen THEN KeyPanic
    ELSE LET X == SetBytes(SubSeq(pubKeyStr, 2, 1 + CoordLen))
             Y == SetBytes(SubSeq(pubKeyStr, 2 + CoordLen, Len(pubKeyStr)))
         IN IF Cmp(X, P) >= 0 THEN KeyErr("pubkey X parameter is >= to P")
            ELSE IF Cmp(Y, P) >= 0 THEN KeyErr("pubkey Y parameter is >= to P")
            ELSE IF ~IsOnCurve(X, Y) THEN KeyErr("pubkey isn't on secp256k1 curve")
            ELSE KeyOk(X, Y)

\* the root taken as it comes, whatever the tag
FixParityNever(y, tag) == y

\* the parity fix of parsePubKeyCompressed: y.Neg(y).Mod(y, p) when the bit
\* of the root differs from the bit of the tag
FixParity(y, tag) == IF Bit0(y) # tag % 2 THEN (-y) % P ELSE y

\* parsePubKeyCompressed
parsePubKeyCompressed(data) ==
    IF Len(data) # 1 + byteLen THEN KeyErr("parsePubKeyCompressed byteLen error")
    ELSE IF data[1] # 2 /\ data[1] # 3
    THEN KeyErr("parsePubKeyCompressed compressed form error")
    ELSE LET x == SetBytes(SubSeq(data, 2, Len(data))) IN
         IF Cmp(x, P) >= 0 THEN KeyErr("parsePubKeyCompressed x data error")
         ELSE LET root == ModSqrt(polynomial(B, P, x), P) IN
              IF root.nil THEN KeyErr("parsePubKeyCompressed y data error")
              ELSE LET y == FixParity(root.v, data[1]) IN
                   IF ~IsOnCurve(x, y)
                   THEN KeyErr("parsePubKeyCompressed IsOnCurve error")
                   ELSE KeyOk(x, y)
(***************************************************************************)
(* Inputs.                                                                 *)
(***************************************************************************)
\* every valid public key: the affine points of the curve
CurvePoints ==
    UNION {{[X |-> x, Y |-> y] : y \in {w \in 0..(P - 1) : IsOnCurve(x, w)}} :
           x \in 0..(P - 1)}

\* coordinates that are no field element, or the largest that fit the width
OutOfField == {P, P + 1, ByteBase ^ CoordLen - 1}

\* pairs written into the X and Y fields of an encoding handed to a parser
CoordPairs ==
    CurvePoints
    \cup {[X |-> x, Y |-> y] : x \in {0, 1, P - 1} \cup OutOfField,
                               y \in {0, 1, P - 1} \cup OutOfField}

TagSamples == {0, 2, 3, pubkeyUncompressed}
ExtraBytes == {0, 1, 127}

RECURSIVE SeqsUpTo(_, _)
\* the sequences over S of length 0..n
SeqsUpTo(S, n) ==
    IF n = 0 THEN {<<>>}
    ELSE LET shorter == SeqsUpTo(S, n - 1)
         IN shorter \cup {Append(q, b) : q \in {r \in shorter : Len(r) = n - 1}, b \in S}

Extras == SeqsUpTo(ExtraBytes, MaxExtra)

\* v as a big-endian field of w bytes, zeros on the left
BigEndian(v, w) == [i \in 1..w |-> (v \div ByteBase ^ (w - i)) % ByteBase]

\* a coordinate as a fixed-width field
Field(v) == BigEndian(v, CoordLen)

\* b without its last n bytes
Cut(b, n) == SubSeq(b, 1, IF Len(b) > n THEN Len(b) - n ELSE 0)

\* b with the byte at index i (from 0) replaced by v, when there is one
ReplaceAt(b, i, v) == [j \in 1..Len(b) |-> IF j = i + 1 THEN v ELSE b[j]]

\* the byte strings handed to parsePubKey: tag, X field, then Y as a field,
\* as its minimal bytes, or as a field behind extra bytes; cut at the end
UncompressedInputs ==
    {Cut((<<tag>> \o Field(c.X)) \o ytail, n) :
        tag \in TagSamples, n \in 0..MaxCut,
        <<c, ytail>> \in
          UNION {{<<d, yb>> : yb \in {Bytes(d.Y)} \cup {e \o Field(d.Y) : e \in Extras}} :
                 d \in CoordPairs}}

\* the byte strings handed to parsePubKeyCompressed
CompressedInputs ==
    {Cut((<<tag>> \o Field(x)) \o e, n) :
        tag \in TagSamples, n \in 0..MaxCut, e \in Extras,
        x \in 0..(P - 1) \cup OutOfField}

\* private scalars: the in-range ones and some that need one byte more
DVals == 0..(N - 1) \cup {ByteBase ^ privateKeyECDSALength - 1,
                         ByteBase ^ privateKeyECDSALength,
                         ByteBase ^ privateKeyECDSALength + N}

NoKey == [X |-> 0, Y |-> 0]
NoRes == KeyErr("")
Threads == {1, 2}
IdleThreads == [t \in Threads |-> [pc |-> "idle", lowS |-> FALSE, tmp |-> 0, ret |-> 0]]

(***************************************************************************)
(* Key codecs: one action per call.  buf is the byte string last produced  *)
(* or last handed to a parser, key the point or scalar last serialized,    *)
(* res the result of the last parse.  The functions keep no state between  *)
(* calls, so a behaviour is one call, or a serialization and the parse of  *)
(* its output.                                                             *)
(***************************************************************************)
Init ==
    /\ op = "init"
    /\ key = NoKey
    /\ buf = <<>>
    /\ res = NoRes
    /\ cell = 0
    /\ thr = IdleThreads

CallSerializePublicKeyCompressed ==
    /\ op = "init"
    /\ \E p \in CurvePoints :
            /\ op' = "SerializePublicKeyCompressed"
            /\ key' = p
            /\ buf' = SerializePublicKeyCompressed(p)
            /\ res' = NoRes
            /\ UNCHANGED <<cell, thr>>

\* the serialized key is parsed back
CallParsePubKeyCompressedBack ==
    /\ op = "SerializePublicKeyCompressed"
    /\ op' = "parsePubKeyCompressed(serialized)"
    /\ res' = parsePubKeyCompressed(buf)
    /\ UNCHANGED <<key, buf, cell, thr>>

CallParsePubKeyCompressed ==
    /\ op = "init"
    /\ \E data \in CompressedInputs :
            /\ op' = "parsePubKeyCompressed"
            /\ key' = NoKey
            /\ buf' = data
            /\ res' = parsePubKeyCompressed(data)
            /\ UNCHANGED <<cell, thr>>

CallSerializePublicKey ==
    /\ op = "init"
    /\ \E p \in CurvePoints :
            /\ op' = "SerializePublicKey"
            /\ key' = p
            /\ buf' = SerializePublicKey(p)
            /\ res' = NoRes
            /\ UNCHANGED <<cell, thr>>

CallParsePubKeyBack ==
    /\ op = "SerializePublicKey"
    /\ op' = "parsePubKey(serialized)"
    /\ res' = parsePubKey(buf)
    /\ UNCHANGED <<key, buf, cell, thr>>

CallParsePubKey ==
    /\ op = "init"
    /\ \E data \in UncompressedInputs :
            /\ op' = "parsePubKey"
            /\ key' = NoKey
            /\ buf' = data
            /\ res' = parsePubKey(data)
            /\ UNCHANGED <<cell, thr>>

CallSerializePrivateKey ==
    /\ op = "init"
    /\ \E d \in DVals :
            /\ op' = "SerializePrivateKey"
            /\ key' = [X |-> d, Y |-> 0]
            /\ buf' = SerializePrivateKey(d)
            /\ res' = NoRes
            /\ UNCHANGED <<cell, thr>>

Next ==
    \/ CallSerializePublicKeyCompressed
    \/ CallParsePubKeyCompressedBack
    \/ CallParsePubKeyCompressed
    \/ CallSerializePublicKey
    \/ CallParsePubKeyBack
    \/ CallParsePubKey
    \/ CallSerializePrivateKey

Spec == Init /\ [][Next]_vars
(***************************************************************************)
(* Signature codec.                                                        *)
(***************************************************************************)
SigVals == {-128, -1, 0, 1, 127, 128, N - 1}
ByteSamples == {0, 1, 2, 3, TagSequenceByte, LongFormBit, ByteBase - 1}
NoSig == SigErr("")

\* the byte strings handed to UnmarshalECDSASignature: an encoding with one
\* byte replaced, cut at the end
RawInputs ==
    {Cut(ReplaceAt(MarshalECDSASignature(r, s), i, v), n) :
        r \in SigVals, s \in SigVals, i \in 0..MaxPos, v \in ByteSamples,
        n \in 0..MaxCut}

InitSig ==
    /\ op = "init"
    /\ key = [R |-> 0, S |-> 0]
    /\ buf = <<>>
    /\ res = NoSig
    /\ cell = 0
    /\ thr = IdleThreads

CallMarshalECDSASignature ==
    /\ op = "init"
    /\ \E r \in SigVals, s \in SigVals :
            /\ op' = "MarshalECDSASignature"
            /\ key' = [R |-> r, S |-> s]
            /\ buf' = MarshalECDSASignature(r, s)
            /\ res' = NoSig
            /\ UNCHANGED <<cell, thr>>

\* the marshalled signature is decoded
CallUnmarshalECDSASignatureBack ==
    /\ op = "MarshalECDSASignature"
    /\ op' = "UnmarshalECDSASignature(marshalled)"
    /\ res' = UnmarshalECDSASignature(buf)
    /\ UNCHANGED <<key, buf, cell, thr>>

CallUnmarshalECDSASignature ==
    /\ op = "init"
    /\ \E raw \in RawInputs :
            /\ op' = "UnmarshalECDSASignature"
            /\ buf' = raw
            /\ res' = UnmarshalECDSASignature(raw)
            /\ UNCHANGED <<key, cell, thr>>

NextSig ==
    \/ CallMarshalECDSASignature
    \/ CallUnmarshalECDSASignatureBack
    \/ CallUnmarshalECDSASignature

SpecSig == InitSig /\ [][NextSig]_vars

(***************************************************************************)
(* Low-S normaliser, one caller.  cell is the value held by the scalar     *)
(* object s; key records the value it was created with and the order of    *)
(* the key's curve; res the value read through the returned pointer and    *)
(* the value the call before returned.                                     *)
(***************************************************************************)
CurveOrders == {N, NOther}
NoLow == [ret |-> 0, prev |-> 0, low |-> FALSE, lowNeg |-> FALSE]

InitLowS ==
    /\ op = "init"
    /\ key = [s |-> 0, kN |-> N]
    /\ buf = <<>>
    /\ res = NoLow
    /\ cell = 0
    /\ thr = IdleThreads

\* the caller holds a scalar in [0, kN) and a key whose curve has order kN
NewScalar ==
    /\ op = "init"
    /\ \E kN \in CurveOrders : \E s \in 0..(kN - 1) :
            /\ op' = "new"
            /\ key' = [s |-> s, kN |-> kN]
            /\ cell' = s
            /\ UNCHANGED <<buf, res, thr>>

\* IsLowS on the scalar and on its negation modulo the order of P-256
CallIsLowS ==
    /\ op = "new"
    /\ key.kN = N
    /\ op' = "IsLowS"
    /\ res' = [NoLow EXCEPT !.low = IsLowS(cell), !.lowNeg = IsLowS(N - cell)]
    /\ UNCHANGED <<key, buf, cell, thr>>

CallToLowS ==
    /\ op = "new"
    /\ op' = "ToLowS"
    /\ cell' = ToLowS(key.kN, cell).cell
    /\ res' = [NoLow EXCEPT !.ret = ToLowS(key.kN, cell).ret]
    /\ UNCHANGED <<key, buf, thr>>

\* ToLowS on the result of ToLowS
CallToLowSAgain ==
    /\ op = "ToLowS"
    /\ op' = "ToLowS(ToLowS)"
    /\ cell' = ToLowS(key.kN, cell).cell
    /\ res' = [NoLow EXCEPT !.ret = ToLowS(key.kN, cell).ret, !.prev = res.ret]
    /\ UNCHANGED <<key, buf, thr>>

NextLowS ==
    \/ NewScalar
    \/ CallIsLowS
    \/ CallToLowS
    \/ CallToLowSAgain

SpecLowS == InitLowS /\ [][NextLowS]_vars

(***************************************************************************)
(* Low-S normaliser, two goroutines calling ToLowS(k, s) on the same       *)
(* scalar object with a P-256 key and no lock.  A step is one access to    *)
(* the object: the read of IsLowS, the read of the operand of Sub, the     *)
(* write of its result, the read through the returned pointer.             *)
(***************************************************************************)
InitConc ==
    /\ op = "go"
    /\ \E s \in 1..(N - 1) :
            /\ key = [s |-> s, kN |-> N]
            /\ cell = s
    /\ buf = <<>>
    /\ res = NoLow
    /\ thr = [t \in Threads |-> [pc |-> "IsLowS", lowS |-> FALSE, tmp |-> 0, ret |-> 0]]

\* lowS := IsLowS(s)
StepIsLowS(t) ==
    /\ thr[t].pc = "IsLowS"
    /\ thr' = [thr EXCEPT ![t].lowS = IsLowS(cell),
                          ![t].pc = IF IsLowS(cell) THEN "return" ELSE "Sub"]
    /\ UNCHANGED <<op, key, buf, res, cell>>

\* s.Sub(N, s): the operand is read
StepSubRead(t) ==
    /\ thr[t].pc = "Sub"
    /\ thr' = [thr EXCEPT ![t].tmp = cell, ![t].pc = "SubWrite"]
    /\ UNCHANGED <<op, key, buf, res, cell>>

\* s.Sub(N, s): the difference is stored in s
StepSubWrite(t) ==
    /\ thr[t].pc = "SubWrite"
    /\ cell' = key.kN - thr[t].tmp
    /\ thr' = [thr EXCEPT ![t].pc = "return"]
    /\ UNCHANGED <<op, key, buf, res>>

\* return s: the caller reads the value through the returned pointer
StepReturn(t) ==
    /\ thr[t].pc = "return"
    /\ thr' = [thr EXCEPT ![t].ret = cell, ![t].pc = "done"]
    /\ UNCHANGED <<op, key, buf, res, cell>>

NextConc ==
    \E t \in Threads :
        \/ StepIsLowS(t)
        \/ StepSubRead(t)
        \/ StepSubWrite(t)
        \/ StepReturn(t)

SpecConc == InitConc /\ [][NextConc]_vars
(***************************************************************************)
(* Properties.                                                             *)
(***************************************************************************)
Parsed(p) == KeyOk(p.X, p.Y)

\* C1: a compressed key is the tag byte followed by X as a fixed-width
\* big-endian field padded on the left, and parsing it back gives the
\* point, also when X has leading zero bytes.
C1_CompressedRoundTrip ==
    /\ op \in {"SerializePublicKeyCompressed", "parsePubKeyCompressed(serialized)"}
         => buf = <<IF Bit0(key.Y) = 1 THEN 3 ELSE 2>> \o BigEndian(key.X, byteLen)
    /\ op = "parsePubKeyCompressed(serialized)" => res = Parsed(key)

\* C2: an uncompressed key is 0x04, X and Y as fixed-width big-endian
\* fields padded on the left, 1 + 2 * CoordLen bytes in all, and parsing it
\* back gives the point, also when X or Y has leading zero bytes.
C2_UncompressedRoundTrip ==
    /\ op \in {"SerializePublicKey", "parsePubKey(serialized)"}
         => /\ Len(buf) = 1 + 2 * CoordLen
            /\ buf = (<<pubkeyUncompressed>> \o BigEndian(key.X, CoordLen))
                       \o BigEndian(key.Y, CoordLen)
    /\ op = "parsePubKey(serialized)" => res = Parsed(key)

\* a key with a short X was serialized and parsed back
C2_Witness ==
    /\ op = "parsePubKey(serialized)"
    /\ Len(Bytes(key.X)) < CoordLen
    /\ res.status = "ok"

\* C3: parsePubKey returns a key only for an input of exactly
\* 1 + 2 * CoordLen bytes whose fields are a point of the curve; every
\* other non-empty input gives an error value, never a panic, never a key.
C3_ParseUncompressedStrict ==
    op = "parsePubKey" =>
        /\ res.status # "panic"
        /\ res.status = "ok" =>
              /\ Len(buf) = 1 + 2 * CoordLen
              /\ res.X = SetBytes(SubSeq(buf, 2, 1 + CoordLen))
              /\ res.Y = SetBytes(SubSeq(buf, 2 + CoordLen, 1 + 2 * CoordLen))
              /\ IsOnCurve(res.X, res.Y)
        /\ Len(buf) # 1 + 2 * CoordLen => res.status = "error"

\* C4: after ToLowS returns, the scalar object passed in still holds the
\* value it held before the call.
C4_InputUntouched ==
    op = "ToLowS" => cell = key.s

\* the canonical form of s for the order of P-256
Canonical(s) == IF s <= N \div 2 THEN s ELSE N - s

\* C5: when two goroutines call ToLowS on the same scalar without a lock,
\* each call returns the canonical value, whatever the interleaving.
C5_ConcurrentCanonical ==
    \A t \in Threads :
        thr[t].pc = "done" =>
            /\ thr[t].ret = Canonical(key.s)
            /\ thr[t].ret <= N \div 2

\* C6: decode returns (R, S) only when R > 0 and S > 0; an encoding of a
\* zero or negative component gives an error, and with an error both
\* results are nil.
C6_DecodePositivity ==
    op \in {"UnmarshalECDSASignature", "UnmarshalECDSASignature(marshalled)"} =>
        /\ res.err = "" =>
              /\ ~res.R.nil /\ res.R.v > 0
              /\ ~res.S.nil /\ res.S.v > 0
        /\ res.err # "" => res.R = NilInt /\ res.S = NilInt
        /\ (op = "UnmarshalECDSASignature(marshalled)" /\ (key.R <= 0 \/ key.S <= 0))
              => res.err # ""

\* the encoding of a signature with R = 0 and S > 0 was decoded and refused
C6_Witness ==
    /\ op = "UnmarshalECDSASignature(marshalled)"
    /\ key.R = 0 /\ key.S > 0
    /\ res.err = "invalid signature, R must be larger than zero"

\* C7: SerializePrivateKey returns exactly privateKeyECDSALength bytes, the
\* big-endian d padded on the left; a longer scalar never gives an output
\* of another length.
C7_PrivateKeyWidth ==
    op = "SerializePrivateKey" =>
        /\ Len(buf) = privateKeyECDSALength
        /\ Len(Bytes(key.X)) <= privateKeyECDSALength
              => buf = BigEndian(key.X, privateKeyECDSALength)

\* C8: for s in [1, N-1], exactly one of s and N - s is low.
C8_LowSTotality ==
    (op = "IsLowS" /\ key.s \in 1..(N - 1)) => res.low # res.lowNeg

\* IsLowS was evaluated just above half the order: N - s is the low one
C8_Witness ==
    /\ op = "IsLowS"
    /\ key.s = N \div 2 + 1
    /\ ~res.low /\ res.lowNeg

\* C9: ToLowS(ToLowS(s)) = ToLowS(s) for s in [0, kN), kN the order of the
\* curve of the key passed to ToLowS.
C9_Idempotent ==
    op = "ToLowS(ToLowS)" => res.ret = res.prev

\* C10: a key parsed from a compressed encoding has a Y whose lowest bit
\* is the lowest bit of the tag.
C10_ParityMatchesTag ==
    (op \in {"parsePubKeyCompressed", "parsePubKeyCompressed(serialized)"}
       /\ res.status = "ok")
      => Bit0(res.Y) = buf[1] % 2

\* a key was parsed whose square root came out with the other parity and
\* was negated
C10_Witness ==
    /\ op = "parsePubKeyCompressed"
    /\ res.status = "ok"
    /\ buf[1] = 3
    /\ Bit0(ModSqrt(polynomial(B, P, res.X), P).v) = 0

====
